---- MODULE Spec2Model ----
(***************************************************************************)
(* Model of package iter (src/iter/iter.go): the callback-driven sequence  *)
(* type Seq and the combinators built on it.                               *)
(*                                                                         *)
(* A sequence value is represented by the expression that built it (the    *)
(* closure and what it captured).  Invoking a sequence with a yield        *)
(* callback is interpreted the way Go runs it: the callback a combinator   *)
(* hands to its upstream is a frame holding the closure's local variables, *)
(* and the chain of callbacks down to the consumer is a stack of frames.   *)
(***************************************************************************)
EXTENDS Integers, Sequences, FiniteSets, TLC

\* ------------------------------------------------------------------ bounds
MaxLen == 3        \* longest upstream list
MaxN == 3          \* largest sizing argument of Take, Skip and Chunked
MaxK == 2          \* latest yield call on which the consumer answers false
MaxRuns == 2       \* how many times one sequence value is invoked
MaxStops == 2      \* how many times stop is called on one pull handle

\* the element values: two of them give duplicates, ties and both orders
Vals == {1, 2}
Lists == UNION {[1..n -> Vals] : n \in 0..MaxLen}
ShortLists == UNION {[1..n -> Vals] : n \in 0..(MaxLen - 1)}

VARIABLES
    pc,      \* "init": nothing constructed; "built": seq holds a sequence; "panicked"
    seq,     \* the constructed sequence value (an expression), or NoSeq
    heap,    \* backing arrays of slices: heap[id] is the array's contents
    sets,    \* set.Set objects: sets[id] is the set's contents
    held,    \* ids of the backing arrays the consumer was handed and retains
    call,    \* the constructor call that was made: its name and sizing argument
    runs,    \* the finished invocations of seq, oldest first
    pull     \* a pull handle used on its own: its producer task and its caller

vars == <<pc, seq, heap, sets, held, call, runs, pull>>

NoSeq == [op |-> "none"]
Panic == [op |-> "panic"]

\* ---------------------------------------------------------------- helpers
Min(a, b) == IF a <= b THEN a ELSE b

R(ret, frames, st) == [ret |-> ret, frames |-> frames, st |-> st]

\* s[:n] of a Go slice value [ref, len]: the first len cells of its backing array
Deref(h, s) == SubSeq(h[s.ref], 1, s.len)

Zeros(n) == [i \in 1..n |-> 0]

\* ---------------------------------------------------------- the consumer
(* The consumer's yield callback.  It answers true until its k-th call,    *)
(* false on that call and on any later one (k = 0: it never stops).  It    *)
(* keeps every value it is handed; of a slice it keeps the slice itself    *)
(* (refs) and notes what the slice held when it was yielded (out).         *)
Consumer(v, st) ==
    LET n == st.calls + 1
        ans == (st.k = 0) \/ (n < st.k)
        st1 == [st EXCEPT
                  !.calls = n,
                  !.late = IF st.stopped THEN @ + 1 ELSE @,
                  !.stopped = @ \/ ~ans,
                  !.out = Append(@, IF st.slices THEN Deref(st.heap, v) ELSE v),
                  !.refs = IF st.slices THEN Append(@, v.ref) ELSE @,
                  !.again = @ \/ (st.slices /\ v.ref \in st.held),
                  !.held = IF st.slices THEN @ \cup {v.ref} ELSE @]
    IN  R(ans, <<>>, st1)

\* ------------------------------------------------- functions and predicates
\* the functions handed to Map
MapFns == {"inc", "double"}
ApplyF(f, v) == IF f = "inc" THEN v + 1 ELSE 2 * v

\* the predicates handed to Filter and TakeWhile
Preds == {"always", "never", "isOne"}
ApplyP(p, v) ==
    CASE p = "always" -> TRUE
      [] p = "never" -> FALSE
      [] p = "isOne" -> v = 1

\* comparators handed to MergeFunc; "cmp" is cmp.Compare, "gt" is no ordering
Cmps == {"cmp", "rev", "gt", "eq"}
ApplyCmp(f, a, b) ==
    CASE f = "cmp" -> (IF a.k < b.k THEN -1 ELSE IF a.k > b.k THEN 1 ELSE 0)
      [] f = "rev" -> (IF a.k < b.k THEN 1 ELSE IF a.k > b.k THEN -1 ELSE 0)
      [] f = "gt" -> 1
      [] f = "eq" -> 0

RECURSIVE Call(_, _, _)
RECURSIVE RunSeq(_, _, _)

\* yield(v) as seen by the frame on top of `rest`: the rest of the chain runs
\* and the frame fr is put back on top of it
Yield(fr, rest, v, st) ==
    LET r == Call(rest, v, st) IN R(r.ret, <<fr>> \o r.frames, r.st)

\* the callback returns b without calling yield
Return(b, fr, rest, st) == R(b, <<fr>> \o rest, st)

\* ------------------------------------------------------------- upstreams
\* FromMany(vs...): yields the elements of vs in order until told to stop
FromMany(vs) == [op |-> "FromMany", vs |-> vs]

RECURSIVE FromManyLoop(_, _, _, _)
FromManyLoop(vs, i, frames, st) ==
    IF i > Len(vs) THEN R(TRUE, frames, st)
    ELSE LET r == Call(frames, vs[i], [st EXCEPT !.prod = @ + 1])
         IN  IF ~r.ret THEN R(FALSE, r.frames, r.st)
             ELSE FromManyLoop(vs, i + 1, r.frames, r.st)

FromManyRun(e, frames, st) == FromManyLoop(e.vs, 1, frames, st)

\* run the sequence xs with the callback frame fr in front of `frames`;
\* the result's fr is the frame as the run left it (the closure's variables)
Under(fr, xs, frames, st) ==
    LET r == RunSeq(xs, <<fr>> \o frames, st)
    IN  [ret |-> r.ret, fr |-> Head(r.frames), frames |-> Tail(r.frames), st |-> r.st]

\* ------------------------------------------------------------------- Map
Map(xs, f) == [op |-> "Map", xs |-> xs, f |-> f]

MapYield(fr, rest, a, st) ==
    Yield(fr, rest, ApplyF(fr.f, a), [st EXCEPT !.fapp = @ + 1])

MapRun(e, frames, st) ==
    LET r == Under([op |-> "Map", f |-> e.f], e.xs, frames, st)
    IN  R(r.ret, r.frames, r.st)

\* ---------------------------------------------------------------- Filter
Filter(xs, p) == [op |-> "Filter", xs |-> xs, p |-> p]

\* a Filter that drops yield's answer and asks its upstream to go on
FilterYieldDeaf(fr, rest, a, st) ==
    LET st1 == [st EXCEPT !.papp = @ + 1]
    IN  IF ApplyP(fr.p, a)
        THEN LET r == Yield(fr, rest, a, st1) IN R(TRUE, r.frames, r.st)
        ELSE Return(TRUE, fr, rest, st1)

FilterYield(fr, rest, a, st) ==
    LET st1 == [st EXCEPT !.papp = @ + 1]
    IN  IF ApplyP(fr.p, a)
        THEN LET r == Yield(fr, rest, a, st1) IN R(r.ret, r.frames, r.st)
        ELSE Return(TRUE, fr, rest, st1)

FilterRun(e, frames, st) ==
    LET r == Under([op |-> "Filter", p |-> e.p], e.xs, frames, st)
    IN  R(r.ret, r.frames, r.st)

\* ------------------------------------------------------------------ Take
\* a Take that clamps a negative n to 0 instead of panicking
TakeClamped(xs, n) ==
    [op |-> "Take", xs |-> xs, n |-> IF n < 0 THEN 0 ELSE n]

Take(xs, n) ==
    IF n < 0 THEN Panic ELSE [op |-> "Take", xs |-> xs, n |-> n]

\* a Take that lets one element more through
TakeYieldOffByOne(fr, rest, v, st) ==
    IF fr.took = fr.n + 1 THEN Return(FALSE, fr, rest, st)
    ELSE Yield([fr EXCEPT !.took = @ + 1], rest, v, st)

TakeYield(fr, rest, v, st) ==
    IF fr.took = fr.n THEN Return(FALSE, fr, rest, st)
    ELSE Yield([fr EXCEPT !.took = @ + 1], rest, v, st)

TakeRun(e, frames, st) ==
    LET r == Under([op |-> "Take", n |-> e.n, took |-> 0], e.xs, frames, st)
    IN  R(r.ret, r.frames, r.st)

\* ------------------------------------------------------------------ Skip
Skip(xs, n) == [op |-> "Skip", xs |-> xs, n |-> n]

SkipYield(fr, rest, a, st) ==
    IF fr.skipped = fr.n THEN Yield(fr, rest, a, st)
    ELSE Return(TRUE, [fr EXCEPT !.skipped = @ + 1], rest, st)

SkipRun(e, frames, st) ==
    LET r == Under([op |-> "Skip", n |-> e.n, skipped |-> 0], e.xs, frames, st)
    IN  R(r.ret, r.frames, r.st)

\* ------------------------------------------------------------- TakeWhile
TakeWhile(xs, p) == [op |-> "TakeWhile", xs |-> xs, p |-> p]

\* yield's answer is dropped: the callback returns true after every yield
TakeWhileYield(fr, rest, a, st) ==
    LET st1 == [st EXCEPT !.papp = @ + 1]
    IN  IF ~ApplyP(fr.p, a) THEN Return(FALSE, fr, rest, st1)
        ELSE LET r == Yield(fr, rest, a, st1) IN R(TRUE, r.frames, r.st)

TakeWhileRun(e, frames, st) ==
    LET r == Under([op |-> "TakeWhile", p |-> e.p], e.xs, frames, st)
    IN  R(r.ret, r.frames, r.st)

\* ----------------------------------------------------------- Intersperse
Intersperse(xs, sep) == [op |-> "Intersperse", xs |-> xs, sep |-> sep]

\* an Intersperse that puts the separator after every element
IntersperseYieldAfter(fr, rest, a, st) ==
    LET s == Yield(fr, rest, a, st)
    IN  IF ~s.ret THEN s
        ELSE Yield(fr, Tail(s.frames), fr.sep, s.st)

IntersperseYield(fr, rest, a, st) ==
    LET s == IF fr.isFirst THEN R(TRUE, <<fr>> \o rest, st)
             ELSE Yield(fr, rest, fr.sep, st)
    IN  IF ~s.ret THEN s
        ELSE Yield([fr EXCEPT !.isFirst = FALSE], Tail(s.frames), a, s.st)

IntersperseRun(e, frames, st) ==
    LET r == Under([op |-> "Intersperse", sep |-> e.sep, isFirst |-> TRUE],
                   e.xs, frames, st)
    IN  R(r.ret, r.frames, r.st)

\* ------------------------------------------------------------- MapFilter
\* the functions handed to MapFilter: a name, or the closure Unique builds
MapFilterFns == {[fn |-> "oddInc"], [fn |-> "isOneDouble"]}

\* the closure of Unique: x is dropped when seen holds it, else added and kept
UniqueFn(f, x, st) ==
    IF x \in st.sets[f.seen]
    THEN [b |-> 0, ok |-> FALSE, st |-> st]
    ELSE [b |-> x, ok |-> TRUE,
          st |-> [st EXCEPT !.sets[f.seen] = @ \cup {x}]]

ApplyMF(f, a, st) ==
    CASE f.fn = "oddInc" -> [b |-> a + 1, ok |-> a % 2 = 1, st |-> st]
      [] f.fn = "isOneDouble" -> [b |-> 2 * a, ok |-> a = 1, st |-> st]
      [] f.fn = "unique" -> UniqueFn(f, a, st)

MapFilter(xs, f) == [op |-> "MapFilter", xs |-> xs, f |-> f]

MapFilterYield(fr, rest, a, st) ==
    LET m == ApplyMF(fr.f, a, st)
    IN  IF m.ok THEN Yield(fr, rest, m.b, m.st)
        ELSE Return(TRUE, fr, rest, m.st)

MapFilterRun(e, frames, st) ==
    LET r == Under([op |-> "MapFilter", f |-> e.f], e.xs, frames, st)
    IN  R(r.ret, r.frames, r.st)

\* ---------------------------------------------------------------- Unique
\* seen is the set made when Unique is called: the set.Set object number `seen`
Unique(xs, seen) == MapFilter(xs, [fn |-> "unique", seen |-> seen])

\* --------------------------------------------------------------- Chunked
\* make / append to a nil slice: a new backing array holding `cells`
Alloc(st, cells) == [st EXCEPT !.heap = Append(@, cells)]

\* a store into cell i of backing array ref
Store(st, ref, i, a) ==
    [st EXCEPT !.heap[ref][i] = a,
               !.dirty = @ \/ (ref \in st.held)]

Chunked(xs, n) ==
    IF n <= 0 THEN Panic ELSE [op |-> "Chunked", xs |-> xs, n |-> n]

\* a Chunked that yields its buffer instead of a copy of it
ChunkedYieldNoCopy(fr, rest, a, st) ==
    LET st1 == Store(st, fr.chunk.ref, fr.chunk.len + 1, a)
        chunk1 == [fr.chunk EXCEPT !.len = @ + 1]
        fr1 == [fr EXCEPT !.chunk = chunk1]
    IN  IF chunk1.len = fr.n
        THEN LET y == Yield(fr1, rest, chunk1, st1)
             IN  IF ~y.ret THEN y
                 ELSE R(TRUE,
                        <<[fr1 EXCEPT !.chunk.len = 0]>> \o Tail(y.frames), y.st)
        ELSE Return(TRUE, fr1, rest, st1)

ChunkedYield(fr, rest, a, st) ==
    LET st1 == Store(st, fr.chunk.ref, fr.chunk.len + 1, a)
        chunk1 == [fr.chunk EXCEPT !.len = @ + 1]
        fr1 == [fr EXCEPT !.chunk = chunk1]
    IN  IF chunk1.len = fr.n
        THEN LET st2 == Alloc(st1, Deref(st1.heap, chunk1))
                 copy == [ref |-> Len(st2.heap), len |-> chunk1.len]
                 y == Yield(fr1, rest, copy, st2)
             IN  IF ~y.ret THEN y
                 ELSE R(TRUE,
                        <<[fr1 EXCEPT !.chunk.len = 0]>> \o Tail(y.frames), y.st)
        ELSE Return(TRUE, fr1, rest, st1)

\* a Chunked that forgets the elements left in the buffer when xs ends
ChunkedRunNoTail(e, frames, st) ==
    LET st1 == Alloc(st, Zeros(e.n))
        chunk == [ref |-> Len(st1.heap), len |-> 0]
        r == Under([op |-> "Chunked", n |-> e.n, chunk |-> chunk],
                   e.xs, frames, st1)
    IN  R(r.ret, r.frames, r.st)

ChunkedRun(e, frames, st) ==
    LET st1 == Alloc(st, Zeros(e.n))
        chunk == [ref |-> Len(st1.heap), len |-> 0]
        r == Under([op |-> "Chunked", n |-> e.n, chunk |-> chunk],
                   e.xs, frames, st1)
    IN  IF ~r.ret THEN R(FALSE, r.frames, r.st)
        ELSE IF r.fr.chunk.len = 0 THEN R(TRUE, r.frames, r.st)
        ELSE Call(r.frames, r.fr.chunk, r.st)

\* ---------------------------------------------------------------- Concat
Concat(seqs) == [op |-> "Concat", seqs |-> seqs]

RECURSIVE ConcatLoop(_, _, _, _)
ConcatLoop(seqs, i, frames, st) ==
    IF i > Len(seqs) THEN R(TRUE, frames, st)
    ELSE LET r == RunSeq(seqs[i], frames, st)
         IN  IF ~r.ret THEN R(FALSE, r.frames, r.st)
             ELSE ConcatLoop(seqs, i + 1, r.frames, r.st)

ConcatRun(e, frames, st) == ConcatLoop(e.seqs, 1, frames, st)

\* ---------------------------------------------------------------- Repeat
Repeat(xs) == [op |-> "Repeat", xs |-> xs]

\* for xs(yield) {}: a loop that is still going when the fuel is used up
\* goes on for ever (done = FALSE: the run does not return)
RECURSIVE RepeatLoop(_, _, _)
RepeatLoop(xs, frames, st) ==
    IF st.fuel = 0 THEN R(FALSE, frames, [st EXCEPT !.done = FALSE])
    ELSE LET r == RunSeq(xs, frames, [st EXCEPT !.fuel = @ - 1])
         IN  IF r.ret /\ r.st.done THEN RepeatLoop(xs, r.frames, r.st)
             ELSE R(FALSE, r.frames, r.st)

RepeatRun(e, frames, st) == RepeatLoop(e.xs, frames, st)

\* --------------------------------------------------------------- FlatMap
\* the functions handed to FlatMap, from a value to a sequence
FlatMapFns == {"twice", "upto"}
ApplyFM(f, in) ==
    IF f = "twice" THEN FromMany(<<in, in>>)
    ELSE FromMany([i \in 1..(in - 1) |-> i])

FlatMap(xs, f) == [op |-> "FlatMap", xs |-> xs, f |-> f]

FlatMapYield(fr, rest, in, st) ==
    LET r == RunSeq(ApplyFM(fr.f, in), rest, st)
    IN  R(r.ret, <<fr>> \o r.frames, r.st)

FlatMapRun(e, frames, st) ==
    LET r == Under([op |-> "FlatMap", f |-> e.f], e.xs, frames, st)
    IN  R(r.ret, r.frames, r.st)

\* --------------------------------------------------------------- Flatten
Flatten(seqseq) == [op |-> "Flatten", xs |-> seqseq]

FlattenYield(fr, rest, s, st) ==
    LET r == RunSeq(s, rest, st)
    IN  R(r.ret, <<fr>> \o r.frames, r.st)

FlattenRun(e, frames, st) ==
    LET r == Under([op |-> "Flatten"], e.xs, frames, st)
    IN  R(r.ret, r.frames, r.st)

\* ------------------------------------------------------------------ Pull
\* a consumer that never stops and keeps nothing but the values
Drain ==
    [k |-> 0, calls |-> 0, stopped |-> FALSE, late |-> 0,
     out |-> <<>>, refs |-> <<>>, slices |-> FALSE,
     heap |-> <<>>, sets |-> <<>>, held |-> {},
     dirty |-> FALSE, again |-> FALSE, prod |-> 0, done |-> TRUE,
     fuel |-> 0, pulls |-> <<>>, papp |-> 0, fapp |-> 0]

\* Pull(y): a handle on y; nothing of y has run yet.  The handle is number
\* Len(pulls) of the run; vals is what y yields when it is run to its end.
Pull(y, st) ==
    [st EXCEPT !.pulls = Append(@,
        [vals |-> RunSeq(y, <<>>, Drain).st.out, pos |-> 0,
         nexts |-> 0, stops |-> 0, lateNext |-> 0])]

ZeroElem == [k |-> 0, s |-> "zero"]

\* next(): the next value of y and true, or the zero value and false once y
\* is exhausted or the handle was stopped
PullNext(h, st) ==
    LET p == st.pulls[h]
        ok == p.stops = 0 /\ p.pos < Len(p.vals)
    IN  [v |-> IF ok THEN p.vals[p.pos + 1] ELSE ZeroElem,
         ok |-> ok,
         st |-> [st EXCEPT !.pulls[h] =
                    [p EXCEPT !.pos = IF ok THEN @ + 1 ELSE @,
                              !.nexts = @ + 1,
                              !.lateNext = IF p.stops > 0 THEN @ + 1 ELSE @]]]

\* stop(): y's producer is released; may be called again
PullStop(h, st) == [st EXCEPT !.pulls[h].stops = @ + 1]

\* ------------------------------------------------------------- MergeFunc
MergeFunc(x, y, f) == [op |-> "MergeFunc", x |-> x, y |-> y, f |-> f]

\* Merge is MergeFunc with cmp.Compare
Merge(x, y) == MergeFunc(x, y, "cmp")

\* a merge that lets the element of y go first on a tie
RECURSIVE MergeFuncYieldTieToY(_, _, _, _)
MergeFuncYieldTieToY(fr, rest, vx, st) ==
    IF fr.ok /\ ApplyCmp(fr.f, vx, fr.vy) >= 0
    THEN LET y == Call(rest, fr.vy, st)
         IN  IF ~y.ret THEN R(FALSE, <<fr>> \o y.frames, y.st)
             ELSE LET nx == PullNext(fr.h, y.st)
                  IN  MergeFuncYieldTieToY([fr EXCEPT !.vy = nx.v, !.ok = nx.ok],
                                           y.frames, vx, nx.st)
    ELSE Yield(fr, rest, vx, st)

\* the callback handed to x: what of y sorts before vx goes out first
RECURSIVE MergeFuncYield(_, _, _, _)
MergeFuncYield(fr, rest, vx, st) ==
    IF fr.ok /\ ApplyCmp(fr.f, vx, fr.vy) > 0
    THEN LET y == Call(rest, fr.vy, st)
         IN  IF ~y.ret THEN R(FALSE, <<fr>> \o y.frames, y.st)
             ELSE LET nx == PullNext(fr.h, y.st)
                  IN  MergeFuncYield([fr EXCEPT !.vy = nx.v, !.ok = nx.ok],
                                     y.frames, vx, nx.st)
    ELSE Yield(fr, rest, vx, st)

\* a merge that returns when x is exhausted, leaving the rest of y
MergeFuncRestDropped(fr, frames, st) == R(TRUE, frames, st)

\* the loop after x is exhausted: what is left of y goes out
RECURSIVE MergeFuncRest(_, _, _)
MergeFuncRest(fr, frames, st) ==
    IF ~fr.ok THEN R(TRUE, frames, st)
    ELSE LET y == Call(frames, fr.vy, st)
         IN  IF ~y.ret THEN R(FALSE, y.frames, y.st)
             ELSE LET nx == PullNext(fr.h, y.st)
                  IN  MergeFuncRest([fr EXCEPT !.vy = nx.v, !.ok = nx.ok],
                                    y.frames, nx.st)

\* a merge that calls stop only when it gets to its end
MergeFuncRunNoDefer(e, frames, st) ==
    LET st1 == Pull(e.y, st)
        h == Len(st1.pulls)
        n0 == PullNext(h, st1)
        r == Under([op |-> "MergeFunc", f |-> e.f, h |-> h,
                    vy |-> n0.v, ok |-> n0.ok], e.x, frames, n0.st)
        d == IF ~r.ret THEN R(FALSE, r.frames, r.st)
             ELSE MergeFuncRest(r.fr, r.frames, r.st)
    IN  R(d.ret, d.frames, IF d.ret THEN PullStop(h, d.st) ELSE d.st)

MergeFuncRun(e, frames, st) ==
    LET st1 == Pull(e.y, st)
        h == Len(st1.pulls)
        n0 == PullNext(h, st1)
        r == Under([op |-> "MergeFunc", f |-> e.f, h |-> h,
                    vy |-> n0.v, ok |-> n0.ok], e.x, frames, n0.st)
        d == IF ~r.ret THEN R(FALSE, r.frames, r.st)
             ELSE MergeFuncRest(r.fr, r.frames, r.st)
    IN  R(d.ret, d.frames, PullStop(h, d.st))

\* ------------------------------------------------------------- dispatch
\* the callback at the top of the frame stack is called with v
Call(frames, v, st) ==
    IF frames = <<>> THEN Consumer(v, st)
    ELSE LET fr == Head(frames)
             rest == Tail(frames)
         IN  CASE fr.op = "Map" -> MapYield(fr, rest, v, st)
               [] fr.op = "Filter" -> FilterYield(fr, rest, v, st)
               [] fr.op = "Take" -> TakeYield(fr, rest, v, st)
               [] fr.op = "Skip" -> SkipYield(fr, rest, v, st)
               [] fr.op = "TakeWhile" -> TakeWhileYield(fr, rest, v, st)
               [] fr.op = "Intersperse" -> IntersperseYield(fr, rest, v, st)
               [] fr.op = "MapFilter" -> MapFilterYield(fr, rest, v, st)
               [] fr.op = "Chunked" -> ChunkedYield(fr, rest, v, st)
               [] fr.op = "FlatMap" -> FlatMapYield(fr, rest, v, st)
               [] fr.op = "Flatten" -> FlattenYield(fr, rest, v, st)
               [] fr.op = "MergeFunc" -> MergeFuncYield(fr, rest, v, st)

\* seq(yield): the sequence e is invoked with the callback chain `frames`
RunSeq(e, frames, st) ==
    CASE e.op = "FromMany" -> FromManyRun(e, frames, st)
      [] e.op = "Map" -> MapRun(e, frames, st)
      [] e.op = "Filter" -> FilterRun(e, frames, st)
      [] e.op = "Take" -> TakeRun(e, frames, st)
      [] e.op = "Skip" -> SkipRun(e, frames, st)
      [] e.op = "TakeWhile" -> TakeWhileRun(e, frames, st)
      [] e.op = "Intersperse" -> IntersperseRun(e, frames, st)
      [] e.op = "MapFilter" -> MapFilterRun(e, frames, st)
      [] e.op = "Chunked" -> ChunkedRun(e, frames, st)
      [] e.op = "Concat" -> ConcatRun(e, frames, st)
      [] e.op = "Repeat" -> RepeatRun(e, frames, st)
      [] e.op = "FlatMap" -> FlatMapRun(e, frames, st)
      [] e.op = "Flatten" -> FlattenRun(e, frames, st)
      [] e.op = "MergeFunc" -> MergeFuncRun(e, frames, st)

\* --------------------------------------------------- a pull handle, stepwise
\* The handle of Pull(y) with its producer task.  task is where the producer
\* is: "unstarted", "running" (inside the sequence), "parked" (blocked in
\* yield until the next call), "done" (the sequence returned, or it was never
\* started and the handle is stopped).  caller is where the consumer is:
\* "idle" (outside the handle), "inNext", "inStop".  yielded counts the values
\* the sequence has yielded, got is what the calls of next returned,
\* gotAtStop and yieldedAtStop are Len(got) and yielded at the first stop.
NoPull ==
    [vals |-> <<>>, task |-> "none", caller |-> "idle", stopReq |-> FALSE,
     yielded |-> 0, nexts |-> 0, stops |-> 0, got |-> <<>>,
     gotAtStop |-> 0, yieldedAtStop |-> 0]

\* ------------------------------------------------------------ the machine
Init ==
    /\ pc = "init"
    /\ seq = NoSeq
    /\ heap = <<>>
    /\ sets = <<>>
    /\ held = {}
    /\ call = [op |-> "none", n |-> 0]
    /\ runs = <<>>
    /\ pull = NoPull

\* the result of calling a constructor: the sequence it returns, or a panic
Built(e, op, n) ==
    /\ pc = "init"
    /\ call' = [op |-> op, n |-> n]
    /\ pc' = IF e = Panic THEN "panicked" ELSE "built"
    /\ seq' = IF e = Panic THEN NoSeq ELSE e
    /\ UNCHANGED <<heap, held, runs, pull>>

\* the elements of the inputs of MergeFunc carry the input they come from
Tagged(vs, s) == [i \in 1..Len(vs) |-> [k |-> vs[i], s |-> s]]

NewMap ==
    /\ \E vs \in Lists, f \in MapFns : Built(Map(FromMany(vs), f), "Map", 0)
    /\ UNCHANGED sets
NewFilter ==
    /\ \E vs \in Lists, p \in Preds : Built(Filter(FromMany(vs), p), "Filter", 0)
    /\ UNCHANGED sets
NewMapFilter ==
    /\ \E vs \in Lists, f \in MapFilterFns : Built(MapFilter(FromMany(vs), f), "MapFilter", 0)
    /\ UNCHANGED sets
NewFlatMap ==
    /\ \E vs \in Lists, f \in FlatMapFns : Built(FlatMap(FromMany(vs), f), "FlatMap", 0)
    /\ UNCHANGED sets
NewFlatten ==
    /\ \E a, b \in ShortLists :
          Built(Flatten(FromMany(<<FromMany(a), FromMany(b)>>)), "Flatten", 0)
    /\ UNCHANGED sets
NewConcat ==
    /\ \E a, b \in ShortLists : Built(Concat(<<FromMany(a), FromMany(b)>>), "Concat", 0)
    /\ UNCHANGED sets
NewMergeFunc ==
    /\ \E a, b \in ShortLists, f \in Cmps :
          Built(MergeFunc(FromMany(Tagged(a, "x")), FromMany(Tagged(b, "y")), f), "MergeFunc", 0)
    /\ UNCHANGED sets
NewChunked ==
    /\ \E vs \in Lists, n \in -1..MaxN : Built(Chunked(FromMany(vs), n), "Chunked", n)
    /\ UNCHANGED sets
NewIntersperse ==
    /\ \E vs \in Lists : Built(Intersperse(FromMany(vs), 0), "Intersperse", 0)
    /\ UNCHANGED sets
NewRepeat ==
    /\ \E vs \in Lists : Built(Repeat(FromMany(vs)), "Repeat", 0)
    /\ UNCHANGED sets
NewTake ==
    /\ \E vs \in Lists, n \in -1..MaxN : Built(Take(FromMany(vs), n), "Take", n)
    /\ UNCHANGED sets
NewSkip ==
    /\ \E vs \in Lists, n \in 0..MaxN : Built(Skip(FromMany(vs), n), "Skip", n)
    /\ UNCHANGED sets
NewTakeWhile ==
    /\ \E vs \in Lists, p \in Preds : Built(TakeWhile(FromMany(vs), p), "TakeWhile", 0)
    /\ UNCHANGED sets
\* Unique makes its set when it is called, before the sequence is returned
NewUnique ==
    /\ \E vs \in Lists : Built(Unique(FromMany(vs), Len(sets) + 1), "Unique", 0)
    /\ sets' = Append(sets, {})

\* the state a run starts in, for a consumer that stops on its k-th call
Start(k) ==
    [k |-> k, calls |-> 0, stopped |-> FALSE, late |-> 0,
     out |-> <<>>, refs |-> <<>>, slices |-> seq.op = "Chunked",
     heap |-> heap, sets |-> sets, held |-> held,
     dirty |-> FALSE, again |-> FALSE, prod |-> 0, done |-> TRUE,
     fuel |-> MaxK + 1, pulls |-> <<>>, papp |-> 0, fapp |-> 0]

\* seq(yield) is called by a consumer and runs until it returns
Invoke ==
    /\ pc = "built"
    /\ Len(runs) < MaxRuns
    /\ \E k \in 0..MaxK :
         \E r \in {RunSeq(seq, <<>>, Start(k))} :
             /\ runs' = Append(runs,
                   [k |-> k, ret |-> r.ret, done |-> r.st.done, out |-> r.st.out,
                    refs |-> r.st.refs, stopped |-> r.st.stopped,
                    late |-> r.st.late, calls |-> r.st.calls,
                    dirty |-> r.st.dirty, again |-> r.st.again,
                    prod |-> r.st.prod, pulls |-> r.st.pulls,
                    papp |-> r.st.papp, fapp |-> r.st.fapp])
             /\ heap' = r.st.heap
             /\ sets' = r.st.sets
             /\ held' = r.st.held
    /\ UNCHANGED <<pc, seq, call, pull>>

Next ==
    \/ NewMap
    \/ NewFilter
    \/ NewMapFilter
    \/ NewFlatMap
    \/ NewFlatten
    \/ NewConcat
    \/ NewMergeFunc
    \/ NewChunked
    \/ NewIntersperse
    \/ NewRepeat
    \/ NewTake
    \/ NewSkip
    \/ NewTakeWhile
    \/ NewUnique
    \/ Invoke

Spec == Init /\ [][Next]_vars

\* ------------------------------------------- combinators over combinators
\* a sequence built by Take, TakeWhile or Filter, as the first part of a Concat
FirstParts ==
    {Take(FromMany(vs), n) : vs \in ShortLists, n \in 0..1}
      \cup {TakeWhile(FromMany(vs), p) : vs \in ShortLists, p \in Preds}
      \cup {Filter(FromMany(vs), p) : vs \in ShortLists, p \in Preds}

NewConcatOf ==
    /\ \E a \in FirstParts, b \in {<<>>, <<2, 1>>} :
          Built(Concat(<<a, FromMany(b)>>), "Concat", 0)
    /\ UNCHANGED sets

NewRepeatOf ==
    /\ \E vs \in ShortLists, n \in 0..MaxN :
          Built(Repeat(Take(FromMany(vs), n)), "Repeat", 0)
    /\ UNCHANGED sets

NewMapOfFilter ==
    /\ \E vs \in Lists, p \in Preds, f \in MapFns :
          Built(Map(Filter(FromMany(vs), p), f), "Map", 0)
    /\ UNCHANGED sets

NextNested ==
    \/ NewConcatOf
    \/ NewRepeatOf
    \/ NewMapOfFilter
    \/ Invoke

SpecNested == Init /\ [][NextNested]_vars

\* ------------------------------------------------- the pull handle's steps
\* calls of next made on one handle: enough to go past the end twice
MaxNexts == MaxLen + 2

\* what a call of next returns when there is no value
NoValue == [v |-> ZeroElem, ok |-> FALSE]

\* Pull(seq): the handle is made, the sequence is not started
PullNew ==
    /\ pc = "init"
    /\ pc' = "pulling"
    /\ \E vs \in Lists :
         pull' = [NoPull EXCEPT
                    !.vals = RunSeq(FromMany(Tagged(vs, "y")), <<>>, Drain).st.out,
                    !.task = "unstarted"]
    /\ UNCHANGED <<seq, heap, sets, held, call, runs>>

\* a next() that starts the sequence again when it has come to its end
CallNextRestarts ==
    /\ pc = "pulling" /\ pull.caller = "idle" /\ pull.nexts < MaxNexts
    /\ pull' = IF pull.stopReq
                THEN [pull EXCEPT !.nexts = @ + 1, !.got = Append(@, NoValue)]
                ELSE [pull EXCEPT !.nexts = @ + 1, !.caller = "inNext",
                                  !.task = "running",
                                  !.yielded = IF pull.task = "done" THEN 0 ELSE @]
    /\ UNCHANGED <<pc, seq, heap, sets, held, call, runs>>

\* the consumer calls next(): on a handle that is stopped or whose sequence
\* has returned the call returns false at once; else the producer is started
\* (first call) or let go on (later calls) and the consumer waits for it
CallNext ==
    /\ pc = "pulling" /\ pull.caller = "idle" /\ pull.nexts < MaxNexts
    /\ pull' = IF pull.stopReq \/ pull.task = "done"
                THEN [pull EXCEPT !.nexts = @ + 1, !.got = Append(@, NoValue)]
                ELSE [pull EXCEPT !.nexts = @ + 1, !.caller = "inNext",
                                  !.task = "running"]
    /\ UNCHANGED <<pc, seq, heap, sets, held, call, runs>>

\* a producer that hands over its value and goes on without waiting for the
\* next call
ProducerYieldAhead ==
    /\ pc = "pulling" /\ pull.task = "running" /\ ~pull.stopReq
    /\ pull.yielded < Len(pull.vals)
    /\ pull' = [pull EXCEPT
                  !.yielded = @ + 1,
                  !.caller = "idle",
                  !.got = IF pull.caller = "inNext"
                          THEN Append(@, [v |-> pull.vals[pull.yielded + 1],
                                          ok |-> TRUE])
                          ELSE @]
    /\ UNCHANGED <<pc, seq, heap, sets, held, call, runs>>

\* the sequence yields its next value: the waiting next() returns it with
\* true and the producer blocks in yield
ProducerYield ==
    /\ pc = "pulling" /\ pull.task = "running" /\ ~pull.stopReq
    /\ pull.yielded < Len(pull.vals)
    /\ pull' = [pull EXCEPT
                  !.yielded = @ + 1,
                  !.task = "parked",
                  !.caller = "idle",
                  !.got = Append(@, [v |-> pull.vals[pull.yielded + 1],
                                     ok |-> TRUE])]
    /\ UNCHANGED <<pc, seq, heap, sets, held, call, runs>>

\* the sequence returns at its end: the waiting next() returns false
ProducerFinish ==
    /\ pc = "pulling" /\ pull.task = "running" /\ ~pull.stopReq
    /\ pull.yielded = Len(pull.vals)
    /\ pull' = [pull EXCEPT !.task = "done",
                            !.caller = "idle",
                            !.got = Append(@, NoValue)]
    /\ UNCHANGED <<pc, seq, heap, sets, held, call, runs>>

\* a stop() that sets the signal and leaves a blocked producer where it is
CallStopNoWake ==
    /\ pc = "pulling" /\ pull.caller = "idle" /\ pull.stops < MaxStops
    /\ pull' = [pull EXCEPT
                  !.stops = @ + 1,
                  !.stopReq = TRUE,
                  !.gotAtStop = IF pull.stopReq THEN @ ELSE Len(pull.got),
                  !.yieldedAtStop = IF pull.stopReq THEN @ ELSE pull.yielded,
                  !.task = IF pull.task = "unstarted" THEN "done" ELSE @]
    /\ UNCHANGED <<pc, seq, heap, sets, held, call, runs>>

\* the consumer calls stop(): the signal is set; a producer blocked in yield
\* is woken with false and the consumer waits for it to return; a producer
\* that never started never will; a producer that has returned is left alone
CallStop ==
    /\ pc = "pulling" /\ pull.caller = "idle" /\ pull.stops < MaxStops
    /\ pull' = [pull EXCEPT
                  !.stops = @ + 1,
                  !.stopReq = TRUE,
                  !.gotAtStop = IF pull.stopReq THEN @ ELSE Len(pull.got),
                  !.yieldedAtStop = IF pull.stopReq THEN @ ELSE pull.yielded,
                  !.task = IF pull.task = "unstarted" THEN "done"
                           ELSE IF pull.task = "parked" THEN "running"
                           ELSE @,
                  !.caller = IF pull.task = "parked" THEN "inStop" ELSE @]
    /\ UNCHANGED <<pc, seq, heap, sets, held, call, runs>>

\* the woken producer: yield returned false, the sequence returns, the
\* waiting stop() returns
ProducerExit ==
    /\ pc = "pulling" /\ pull.task = "running" /\ pull.stopReq
    /\ pull' = [pull EXCEPT !.task = "done", !.caller = "idle"]
    /\ UNCHANGED <<pc, seq, heap, sets, held, call, runs>>

Producer == ProducerYield \/ ProducerFinish \/ ProducerExit

NextPull ==
    \/ PullNew
    \/ CallNext
    \/ CallStop
    \/ ProducerYield
    \/ ProducerFinish
    \/ ProducerExit

SpecPull == Init /\ [][NextPull]_vars

\* the producer is a task of its own, which the scheduler runs when it can run
SpecPullFair == SpecPull /\ WF_vars(Producer)

\* ============================================================= properties
\* a finished invocation that the consumer let run to its end
Drained(r) == r.k = 0 /\ r.done

\* the upstream list of a combinator built over one FromMany upstream
Upstream == seq.xs.vs

\* C1: once the consumer's yield callback has returned false, no combinator
\* calls it again in that run (late counts the calls made after a false).
StopInvariant == \A i \in DOMAIN runs : runs[i].late = 0

\* the same for every combinator but TakeWhile
StopInvariantButTakeWhile ==
    call.op # "TakeWhile" => \A i \in DOMAIN runs : runs[i].late = 0

\* C2: a run returns true exactly when the consumer never answered false,
\* and false exactly when the consumer stopped it.
ReturnProtocol ==
    \A i \in DOMAIN runs :
        runs[i].done => (runs[i].ret <=> ~runs[i].stopped)

\* the combinators whose result does follow the protocol
ReturnProtocolOthers ==
    call.op \notin {"Take", "TakeWhile"} =>
        \A i \in DOMAIN runs :
            runs[i].done => (runs[i].ret <=> ~runs[i].stopped)

\* C3: every fully drained run of one sequence value yields the same list of
\* elements, whatever runs came before it.
FreshRun ==
    \A i, j \in DOMAIN runs :
        (Drained(runs[i]) /\ Drained(runs[j])) => runs[i].out = runs[j].out

\* the same for every combinator but Unique
FreshRunButUnique ==
    call.op # "Unique" =>
        \A i, j \in DOMAIN runs :
            (Drained(runs[i]) /\ Drained(runs[j])) => runs[i].out = runs[j].out

\* ------------------------------------------------------------ MergeFunc
\* the comparators that are orderings (cmp.Compare, its reverse, all equal)
Orders == {"cmp", "rev", "eq"}

\* s is ascending under the comparator f
Ascending(f, s) ==
    \A i, j \in DOMAIN s : i < j => ApplyCmp(f, s[i], s[j]) <= 0

FromX(e) == e.s = "x"
FromY(e) == e.s = "y"

\* C4: merging two sequences that are ascending under an ordering f, run to
\* the end, yields an ascending sequence holding exactly the elements of x
\* and of y, and no element of y comes before an element of x it ties with.
OrderedMerge ==
    (call.op = "MergeFunc" /\ seq.f \in Orders
       /\ Ascending(seq.f, seq.x.vs) /\ Ascending(seq.f, seq.y.vs)) =>
        \A r \in DOMAIN runs : Drained(runs[r]) =>
            LET out == runs[r].out
            IN  /\ Ascending(seq.f, out)
                /\ SelectSeq(out, FromX) = seq.x.vs
                /\ SelectSeq(out, FromY) = seq.y.vs
                /\ \A i, j \in DOMAIN out :
                      (i < j /\ FromY(out[i]) /\ FromX(out[j])) =>
                          ApplyCmp(seq.f, out[j], out[i]) # 0

\* a drained merge of two ascending inputs that share a key
OrderedMergeWitness ==
    /\ call.op = "MergeFunc" /\ seq.f = "cmp"
    /\ Ascending("cmp", seq.x.vs) /\ Ascending("cmp", seq.y.vs)
    /\ Len(seq.x.vs) = 2 /\ Len(seq.y.vs) = 2
    /\ seq.x.vs[1].k < seq.x.vs[2].k
    /\ \E i, j \in 1..2 : seq.x.vs[i].k = seq.y.vs[j].k
    /\ Len(runs) > 0 /\ Drained(runs[1]) /\ Len(runs[1].out) = 4

\* C5: whatever the comparator and the order of the inputs, a merge run to
\* the end returns and yields every element of x and of y exactly once, the
\* elements of x in the order of x and those of y in the order of y.
MergeComplete ==
    call.op = "MergeFunc" =>
        \A r \in DOMAIN runs : runs[r].k = 0 =>
            /\ runs[r].done
            /\ Len(runs[r].out) = Len(seq.x.vs) + Len(seq.y.vs)
            /\ SelectSeq(runs[r].out, FromX) = seq.x.vs
            /\ SelectSeq(runs[r].out, FromY) = seq.y.vs

\* a drained merge of inputs that are not ascending
MergeCompleteWitness ==
    /\ call.op = "MergeFunc" /\ seq.f = "cmp"
    /\ Len(seq.x.vs) = 2 /\ seq.x.vs[1].k > seq.x.vs[2].k
    /\ Len(seq.y.vs) = 2 /\ seq.y.vs[1].k > seq.y.vs[2].k
    /\ Len(runs) > 0 /\ runs[1].k = 0 /\ Len(runs[1].out) = 4
    /\ ~Ascending("cmp", runs[1].out)

\* --------------------------------------------------------------- Chunked
RECURSIVE Joined(_)
Joined(chunks) ==
    IF chunks = <<>> THEN <<>> ELSE Head(chunks) \o Joined(Tail(chunks))

\* C6: the chunks of a run of Chunked(s, n) to the end, joined, are s; every
\* chunk but the last holds n elements, the last between 1 and n.
ChunkedPartition ==
    call.op = "Chunked" =>
        \A r \in DOMAIN runs : Drained(runs[r]) =>
            LET out == runs[r].out
            IN  /\ Joined(out) = Upstream
                /\ \A i \in DOMAIN out :
                      /\ Len(out[i]) >= 1
                      /\ Len(out[i]) <= seq.n
                      /\ i < Len(out) => Len(out[i]) = seq.n

\* a drained run that ends with a chunk shorter than n after a full one
ChunkedPartitionWitness ==
    /\ pc = "built" /\ call.op = "Chunked" /\ seq.n = 2 /\ Len(Upstream) = 3
    /\ Len(runs) > 0 /\ Drained(runs[1])
    /\ Len(runs[1].out) = 2 /\ Len(runs[1].out[2]) = 1

TakePrefix ==
    (pc = "built" /\ call.op = "Take") =>
        \A r \in DOMAIN runs : Drained(runs[r]) =>
            runs[r].out = SubSeq(Upstream, 1, Min(seq.n, Len(Upstream)))

\* a drained run that cut a longer upstream short
TakePrefixWitness ==
    /\ pc = "built" /\ call.op = "Take" /\ seq.n = 2 /\ Len(Upstream) = 3
    /\ Len(runs) > 0 /\ Drained(runs[1]) /\ Len(runs[1].out) = 2

\* ---------------------------------------------------------------- panics
\* C9: Take with n < 0 and Chunked with n <= 0 panic, as the constructor is
\* called and so before any run: nothing was produced, yielded or
\* allocated; no other sizing argument panics.
FailFast ==
    pc # "init" =>
        /\ pc = "panicked" <=>
              \/ call.op = "Take" /\ call.n < 0
              \/ call.op = "Chunked" /\ call.n <= 0
        /\ pc = "panicked" => (runs = <<>> /\ heap = <<>> /\ seq = NoSeq)

\* Chunked(s, 0) was called
FailFastWitness == pc = "panicked" /\ call.op = "Chunked" /\ call.n = 0

\* ---------------------------------------------------------------- Unique
\* the elements of s without the repeats of an earlier element
RECURSIVE FirstOccurrences(_)
FirstOccurrences(s) ==
    IF s = <<>> THEN <<>>
    ELSE LET front == SubSeq(s, 1, Len(s) - 1)
             last == s[Len(s)]
         IN  IF \E i \in DOMAIN front : front[i] = last
             THEN FirstOccurrences(front)
             ELSE Append(FirstOccurrences(front), last)

\* C10: a run of Unique(s) to the end yields each distinct value of s once,
\* in the order of first appearance.
UniqueOnce ==
    call.op = "Unique" =>
        \A r \in DOMAIN runs : Drained(runs[r]) =>
            runs[r].out = FirstOccurrences(Upstream)

\* the first run of a Unique sequence does
UniqueOnceFirstRun ==
    (call.op = "Unique" /\ Len(runs) > 0 /\ Drained(runs[1])) =>
        runs[1].out = FirstOccurrences(Upstream)

\* ------------------------------------------- combinators over combinators
\* ToSlice(e): what the sequence e yields when it is run to its end
Elems(e) == RunSeq(e, <<>>, Drain).st.out

\* C11: a run of Concat(a, b) to the end yields the elements of a, in order,
\* and then the elements of b, in order, also when a is itself built by a
\* combinator.
ConcatAppends ==
    (pc = "built" /\ call.op = "Concat") =>
        \A r \in DOMAIN runs : Drained(runs[r]) =>
            runs[r].out = Elems(seq.seqs[1]) \o Elems(seq.seqs[2])

\* C12: a run of Repeat(seq) returns only after the consumer's yield
\* answered false, and then it returns false.
RepeatEndsOnlyOnStop ==
    (pc = "built" /\ call.op = "Repeat") =>
        \A r \in DOMAIN runs :
            runs[r].done => (runs[r].stopped /\ ~runs[r].ret)

\* what holds of every Repeat: a run that returns, returns false
RepeatReturnsFalse ==
    (pc = "built" /\ call.op = "Repeat") =>
        \A r \in DOMAIN runs : runs[r].done => ~runs[r].ret

\* the index in vs of the k-th element that satisfies p
PosOfKth(vs, p, k) ==
    CHOOSE i \in DOMAIN vs :
        /\ ApplyP(p, vs[i])
        /\ Cardinality({j \in 1..i : ApplyP(p, vs[j])}) = k

IsMapOfFilter == pc = "built" /\ call.op = "Map" /\ seq.xs.op = "Filter"

\* C13: when the consumer of Map(Filter(s, p), f) answers false on the k-th
\* element it receives, s has produced its elements up to the k-th one that
\* satisfies p and no more, p was applied to just those and f to the k
\* accepted ones, and yield was not called again.
NoOverProduction ==
    IsMapOfFilter =>
        \A r \in DOMAIN runs : runs[r].stopped =>
            LET last == PosOfKth(seq.xs.xs.vs, seq.xs.p, runs[r].k)
            IN  /\ runs[r].calls = runs[r].k
                /\ runs[r].prod = last
                /\ runs[r].papp = last
                /\ runs[r].fapp = runs[r].k
                /\ ~runs[r].ret

\* the consumer stopped at its first element, the second of three of s
NoOverProductionWitness ==
    /\ IsMapOfFilter /\ seq.xs.p = "isOne" /\ seq.xs.xs.vs = <<2, 1, 1>>
    /\ Len(runs) > 0 /\ runs[1].stopped /\ runs[1].k = 1 /\ runs[1].prod = 2

\* ----------------------------------------------- the pull handle of a merge
\* C17: every run of MergeFunc makes one handle on y of its own, has called
\* its stop by the time it returns, on every way out, and never calls next
\* after stop.
MergeReleasesPull ==
    (pc = "built" /\ call.op = "MergeFunc") =>
        \A r \in DOMAIN runs :
            /\ Len(runs[r].pulls) = 1
            /\ runs[r].pulls[1].stops >= 1
            /\ runs[r].pulls[1].lateNext = 0

\* the consumer stopped a merge that had not come to the end of y, and a
\* second run was made
MergeReleasesPullWitness ==
    /\ pc = "built" /\ call.op = "MergeFunc"
    /\ Len(runs) = 2
    /\ runs[1].stopped
    /\ runs[1].pulls[1].pos < Len(runs[1].pulls[1].vals)
    /\ runs[1].pulls[1].stops = 1
    /\ Drained(runs[2]) /\ runs[2].pulls[1].stops = 1

\* ------------------------------------------------------ Take's upstream
\* C18: in a run of Take(seq, n) the upstream produces at most n elements.
TakeStopsUpstream ==
    (pc = "built" /\ call.op = "Take") =>
        \A r \in DOMAIN runs : runs[r].prod <= seq.n

\* what the upstream of Take does produce: at most one element more than n
TakeUpstreamOneMore ==
    (pc = "built" /\ call.op = "Take") =>
        \A r \in DOMAIN runs :
            /\ runs[r].prod <= seq.n + 1
            /\ Drained(runs[r]) => runs[r].prod = Min(seq.n + 1, Len(Upstream))

\* ------------------------------------------------------------- TakeWhile
\* the longest prefix of s whose elements all satisfy p
RECURSIVE LongestPrefix(_, _)
LongestPrefix(s, p) ==
    IF s = <<>> \/ ~ApplyP(p, Head(s)) THEN <<>>
    ELSE <<Head(s)>> \o LongestPrefix(Tail(s), p)

\* C19: a run of TakeWhile(xs, p) to the end returns true, whether the
\* predicate failed on an element or xs ended, and yields the longest prefix
\* of xs whose elements all satisfy p.
TakeWhileResult ==
    (pc = "built" /\ call.op = "TakeWhile") =>
        \A r \in DOMAIN runs : Drained(runs[r]) =>
            /\ runs[r].ret
            /\ runs[r].out = LongestPrefix(Upstream, seq.p)

\* what holds: the elements are that prefix, and the result is true exactly
\* when the predicate held of every element of xs
TakeWhilePrefix ==
    (pc = "built" /\ call.op = "TakeWhile") =>
        \A r \in DOMAIN runs : Drained(runs[r]) =>
            /\ runs[r].out = LongestPrefix(Upstream, seq.p)
            /\ runs[r].ret <=> (Len(runs[r].out) = Len(Upstream))

PullNextInOrder ==
    /\ pull.stops = 0 =>
          \A i \in DOMAIN pull.got :
              pull.got[i] = IF i <= Len(pull.vals)
                            THEN [v |-> pull.vals[i], ok |-> TRUE]
                            ELSE NoValue
    /\ \A i, j \in DOMAIN pull.got :
          (i < j /\ ~pull.got[i].ok) => pull.got[j] = NoValue

\* every element was fetched and next was called twice more
PullNextInOrderWitness ==
    /\ pc = "pulling" /\ pull.stops = 0 /\ pull.caller = "idle"
    /\ Len(pull.vals) >= 2
    /\ Len(pull.got) = Len(pull.vals) + 2

\* C15: stop may be called at any point and more than once; after the first
\* stop the sequence yields no further value and next returns false; the
\* producer comes to its end and every call of next or stop returns.
PullStopReleases ==
    /\ [](pull.stopReq =>
            /\ pull.yielded = pull.yieldedAtStop
            /\ \A i \in DOMAIN pull.got : i > pull.gotAtStop => pull.got[i] = NoValue)
    /\ (pull.stopReq ~> pull.task = "done")
    /\ (pull.caller # "idle" ~> pull.caller = "idle")

\* stop was called between two yields, then again, with a next after it
PullStopReleasesWitness ==
    /\ pc = "pulling" /\ pull.stops = 2 /\ pull.caller = "idle"
    /\ pull.yieldedAtStop > 0 /\ pull.yieldedAtStop < Len(pull.vals)
    /\ pull.task = "done"
    /\ Len(pull.got) > pull.gotAtStop

\* stop was called before the first next
PullStopBeforeNext == pc = "pulling" /\ pull.stops > 0 /\ pull.nexts = 0

\* stop was called after the sequence had come to its end
PullStopAfterEnd ==
    pc = "pulling" /\ pull.stops > 0 /\ pull.gotAtStop > Len(pull.vals)

\* C16: the sequence has yielded at most as many values as next was called,
\* so nothing before the first next and never more than one value that the
\* consumer has not yet got; producer and consumer never run at once.
PullAlternation ==
    /\ pull.yielded <= pull.nexts
    /\ pull.nexts = 0 => pull.task \in {"none", "unstarted", "done"}
    /\ pull.yielded <= Len(pull.got) + 1
    /\ ~(pull.task = "running" /\ pull.caller = "idle")

\* the producer is blocked after its second value and the consumer runs
PullAlternationWitness ==
    /\ pc = "pulling" /\ pull.task = "parked" /\ pull.caller = "idle"
    /\ pull.yielded = 2 /\ pull.nexts = 2

====
